---- MODULE Spec2Model ----
(***************************************************************************)
(* Model of cloud_function/main.py: the HTTP handler salesforce_trigger    *)
(* and the four stage functions it calls.  One frame holds the locals of   *)
(* one invocation; the warehouse table is the only state shared between    *)
(* invocations.  The collaborators (Secret Manager, Salesforce, BigQuery,  *)
(* Gmail) are environments: each call's outcome is a nondeterministic      *)
(* choice among the outcomes the client libraries can produce.             *)
(***************************************************************************)
EXTENDS Naturals, Sequences, FiniteSets, TLC

VARIABLES
    frames,      \* slot -> locals and position of the invocation it serves
    table,       \* rows of the BigQuery table, in insertion order
    started,     \* number of requests accepted so far
    inserted     \* number of insert_rows_json calls that returned []

vars == <<frames, table, started, inserted>>

(***************************************************************************)
(* Bounds of the model.                                                    *)
(***************************************************************************)
NumSlots == 2
MaxInvocations == 2
WideInvocations == 1
ConcInvocations == 2

Slots == 1..NumSlots

(***************************************************************************)
(* Python values.  Every value carries its type, so that None, strings,    *)
(* lists and dicts can be told apart the way the interpreter does.         *)
(***************************************************************************)
None == [type |-> "NoneType"]
Unbound == [type |-> "unbound"]
Str(s) == [type |-> "str", v |-> s]
List(q) == [type |-> "list", v |-> q]
Dict(f) == [type |-> "dict", v |-> f]
EmptyMap == [k \in {} |-> None]

\* bool(x), as `if x:` and `if not x:` evaluate it
Truthy(x) ==
    CASE x.type = "NoneType" -> FALSE
      [] x.type = "str" -> x.v # ""
      [] x.type = "list" -> Len(x.v) > 0
      [] x.type = "dict" -> DOMAIN x.v # {}
      [] OTHER -> TRUE

\* d.get(key, default) on a dict
DictGet(d, key, default) == IF key \in DOMAIN d.v THEN d.v[key] ELSE default

\* str(x), as an f-string placeholder formats it
Format(x) ==
    CASE x.type = "str" -> x.v
      [] x.type = "NoneType" -> "None"
      [] OTHER -> "<object>"

\* Does the f-string (its segments in order) contain the segment s?
Embeds(text, s) == \E k \in 1..Len(text) : text[k] = s

(***************************************************************************)
(* Requests.  json = FALSE is a body get_json() rejects with an exception; *)
(* otherwise value is what get_json() returns.                             *)
(***************************************************************************)
RecordIds == {"001xx000003DHPGAA4", "001xx000003DHPHAA4"}

NotJson == [json |-> FALSE, value |-> None]
Json(x) == [json |-> TRUE, value |-> x]

GoodRequests == {Json(Dict([recordId |-> Str(id)])) : id \in RecordIds}

BadRequests ==
    { NotJson,
      Json(None),
      Json(List(<<Str("001xx000003DHPGAA4")>>)),
      Json(Dict([other |-> Str("001xx000003DHPGAA4")])),
      Json(Dict([recordId |-> Str("")])),
      Json(Dict([recordId |-> None])) }

Requests == GoodRequests \cup BadRequests

(***************************************************************************)
(* parse_salesforce_notification: the value returned, and whether an       *)
(* exception leaves the function.  The body is one try block, so whatever  *)
(* get_json() or .get raises is caught and None returned.                  *)
(***************************************************************************)
Returned(value) == [raised |-> FALSE, exc |-> "", value |-> value]
Raised(exc) == [raised |-> TRUE, exc |-> exc, value |-> None]

\* The parser without its try block.
parse_unguarded(request_data) ==
    IF ~request_data.json
    THEN Raised("BadRequest")
    ELSE LET notification_data == request_data.value IN
         IF notification_data.type # "dict"
         THEN Raised("AttributeError")
         ELSE LET record_id == DictGet(notification_data, "recordId", None) IN
              IF Truthy(record_id) THEN Returned(record_id) ELSE Returned(None)

\* The parser cutting an 18-character id to its 15-character form.
parse_short_id(request_data) ==
    IF ~request_data.json \/ request_data.value.type # "dict"
    THEN Returned(None)
    ELSE LET record_id == DictGet(request_data.value, "recordId", None) IN
         IF Truthy(record_id) THEN Returned(Str("001xx000003DHPG")) ELSE Returned(None)

parse_salesforce_notification(request_data) ==
    IF ~request_data.json
    THEN Returned(None)                         \* get_json() raised
    ELSE LET notification_data == request_data.value IN
         IF notification_data.type # "dict"
         THEN Returned(None)                    \* .get raised AttributeError
         ELSE LET record_id == DictGet(notification_data, "recordId", None) IN
              IF Truthy(record_id) THEN Returned(record_id) ELSE Returned(None)

(***************************************************************************)
(* Calls to collaborators, logged per invocation in the order issued.      *)
(* stage is the collaborator: "secrets", "crm", "sink" or "notifier".      *)
(***************************************************************************)
Call(stage, op, arg) == [stage |-> stage, op |-> op, arg |-> arg]

CallsTo(calls, stage) == {k \in 1..Len(calls) : calls[k].stage = stage}
CallsOf(calls, op) == {k \in 1..Len(calls) : calls[k].op = op}

(***************************************************************************)
(* get_secrets.  secret_names in dict order; a fault says whether the      *)
(* client constructor fails and which secret ids the store cannot resolve  *)
(* (access denied, missing secret, payload that does not decode).          *)
(***************************************************************************)
secret_names ==
    << [key |-> "salesforce_username",     secret_id |-> "salesforce-username"],
       [key |-> "salesforce_password",     secret_id |-> "salesforce-password"],
       [key |-> "salesforce_token",        secret_id |-> "salesforce-token"],
       [key |-> "salesforce_instance_url", secret_id |-> "salesforce-instance-url"],
       [key |-> "gmail_client_id",         secret_id |-> "gmail-client-id"],
       [key |-> "gmail_client_secret",     secret_id |-> "gmail-client-secret"],
       [key |-> "gmail_refresh_token",     secret_id |-> "gmail-refresh-token"] >>

SecretIds == {secret_names[k].secret_id : k \in 1..Len(secret_names)}
SecretKeys == {secret_names[k].key : k \in 1..Len(secret_names)}

project_id == "demo-project"

resource_name(secret_id) ==
    "projects/" \o project_id \o "/secrets/" \o secret_id \o "/versions/latest"

\* response.payload.data.decode("UTF-8") of a secret the store resolves
Payload(secret_id) == Str("payload:" \o secret_id)

SecretFault(client_fails, unresolved) ==
    [client_fails |-> client_fails, unresolved |-> unresolved]

\* The for loop of lines 112-120 from index k on: ok = FALSE when
\* access_secret_version raised, with the requests made up to then.
RECURSIVE AccessLoop(_, _, _, _)
AccessLoop(k, secrets, calls, unresolved) ==
    IF k > Len(secret_names)
    THEN [ok |-> TRUE, secrets |-> secrets, calls |-> calls]
    ELSE LET secret_id == secret_names[k].secret_id
             key == secret_names[k].key
             issued == Append(calls, Call("secrets", "access_secret_version",
                                          resource_name(secret_id)))
         IN  IF secret_id \in unresolved
             THEN [ok |-> FALSE, secrets |-> secrets, calls |-> issued]
             ELSE AccessLoop(k + 1, secrets @@ (key :> Payload(secret_id)),
                             issued, unresolved)

\* The dict of lines 129-141, built from the secrets collected.
Bundle(secrets) ==
    Dict([ salesforce |-> Dict([ username     |-> secrets["salesforce_username"],
                                 password     |-> secrets["salesforce_password"],
                                 token        |-> secrets["salesforce_token"],
                                 instance_url |-> secrets["salesforce_instance_url"] ]),
           gmail      |-> Dict([ client_id     |-> secrets["gmail_client_id"],
                                 client_secret |-> secrets["gmail_client_secret"],
                                 refresh_token |-> secrets["gmail_refresh_token"] ]) ])

\* A get_secrets that skips a secret it cannot resolve and returns what it has.
get_secrets_partial(fault) ==
    LET got == [k \in SecretKeys |->
                  LET n == CHOOSE n \in 1..Len(secret_names) : secret_names[n].key = k
                  IN  IF secret_names[n].secret_id \in fault.unresolved
                      THEN None ELSE Payload(secret_names[n].secret_id)]
    IN  [ raised |-> FALSE, exc |-> "", value |-> Bundle(got),
          calls |-> <<Call("secrets", "SecretManagerServiceClient", "")>> ]

\* A get_secrets that falls back to empty credentials when the store fails.
get_secrets_defaults(fault) ==
    LET entry == <<Call("secrets", "SecretManagerServiceClient", "")>>
        r == AccessLoop(1, EmptyMap, entry, fault.unresolved)
        blank == [n \in SecretKeys |-> Str("")]
    IN  IF fault.client_fails
        THEN [raised |-> FALSE, exc |-> "", value |-> Bundle(blank), calls |-> entry]
        ELSE [raised |-> FALSE, exc |-> "", calls |-> r.calls,
              value |-> IF r.ok THEN Bundle(r.secrets) ELSE Bundle(blank)]

\* A get_secrets that keeps the bundle of an earlier invocation: once a
\* pipeline run has got as far as inserting, the store is not asked again.
get_secrets_cached(fault) ==
    LET entry == <<Call("secrets", "SecretManagerServiceClient", "")>>
        all == [n \in SecretKeys |->
                  Payload((CHOOSE e \in {secret_names[k] : k \in 1..Len(secret_names)} :
                              e.key = n).secret_id)]
    IN  IF inserted > 0
        THEN [raised |-> FALSE, exc |-> "", value |-> Bundle(all), calls |-> <<>>]
        ELSE IF fault.client_fails
        THEN [raised |-> TRUE, exc |-> "DefaultCredentialsError", value |-> None,
              calls |-> entry]
        ELSE LET r == AccessLoop(1, EmptyMap, entry, fault.unresolved) IN
             [raised |-> FALSE, exc |-> "", calls |-> r.calls,
              value |-> IF r.ok THEN Bundle(r.secrets) ELSE None]

\* get_secrets(): raised = TRUE when an exception leaves the function.
get_secrets(fault) ==
    LET entry == <<Call("secrets", "SecretManagerServiceClient", "")>> IN
    IF fault.client_fails
    THEN [raised |-> TRUE, exc |-> "DefaultCredentialsError", value |-> None,
          calls |-> entry]
    ELSE LET r == AccessLoop(1, EmptyMap, entry, fault.unresolved) IN
         IF r.ok
         THEN [raised |-> FALSE, exc |-> "", value |-> Bundle(r.secrets),
               calls |-> r.calls]
         ELSE [raised |-> FALSE, exc |-> "", value |-> None, calls |-> r.calls]

(***************************************************************************)
(* Responses of salesforce_trigger: a returned (text, status) pair, or an  *)
(* exception that leaves the handler.  text is the f-string's segments.    *)
(***************************************************************************)
NoResponse == [kind |-> "none", text |-> <<>>, status |-> 0, exc |-> ""]
Return(text, status) == [kind |-> "return", text |-> text, status |-> status, exc |-> ""]
Raise(exc) == [kind |-> "raise", text |-> <<>>, status |-> 0, exc |-> exc]

(***************************************************************************)
(* Frames.                                                                 *)
(***************************************************************************)
IdleFrame ==
    [ pc              |-> "idle",
      request         |-> NotJson,
      record_id       |-> Unbound,
      secrets         |-> Unbound,
      salesforce_data |-> Unbound,
      response        |-> NoResponse,
      calls           |-> <<>>,
      secret_fault    |-> SecretFault(FALSE, {}),
      crm_outcome     |-> "",
      sink_outcome    |-> "",
      notifier_outcome |-> "",
      row             |-> 0,
      rows_at_start   |-> 0 ]

Init ==
    /\ frames = [i \in Slots |-> IdleFrame]
    /\ table = <<>>
    /\ started = 0
    /\ inserted = 0

\* A request arrives and the platform calls salesforce_trigger(request).
Start(i, reqs, limit) ==
    /\ frames[i].pc = "idle"
    /\ started < limit
    /\ \E request \in reqs :
         frames' = [frames EXCEPT ![i] = [IdleFrame EXCEPT !.pc = "parse",
                                                          !.request = request,
                                                          !.rows_at_start = Len(table)]]
    /\ started' = started + 1
    /\ UNCHANGED <<table, inserted>>

\* Requests are served one at a time.
Serial(i) == \A j \in Slots \ {i} : frames[j].pc = "idle"

\* Lines 21-23.
Parse(i) ==
    /\ frames[i].pc = "parse"
    /\ LET r == parse_salesforce_notification(frames[i].request)
           record_id == r.value
       IN
       frames' = [frames EXCEPT ![i] =
           IF r.raised
           THEN [@ EXCEPT !.pc = "done", !.response = Raise(r.exc)]
           ELSE IF ~Truthy(record_id)
           THEN [@ EXCEPT !.pc = "done", !.record_id = record_id,
                          !.response = Return(
                              <<"Error: Could not parse record ID from notification.">>,
                              400)]
           ELSE [@ EXCEPT !.pc = "secrets", !.record_id = record_id]]
    /\ UNCHANGED <<table, started, inserted>>

\* Lines 30-32.
ResolveSecrets(i, faults) ==
    /\ frames[i].pc = "secrets"
    /\ \E fault \in faults :
         LET r == get_secrets(fault)
             f == [frames[i] EXCEPT !.calls = @ \o r.calls, !.secret_fault = fault]
         IN  frames' = [frames EXCEPT ![i] =
                 IF r.raised
                 THEN [f EXCEPT !.pc = "done", !.response = Raise(r.exc)]
                 ELSE IF r.value.type # "dict"
                 THEN [f EXCEPT !.pc = "done", !.secrets = r.value,
                                !.response = Raise("TypeError")]
                 ELSE [f EXCEPT !.pc = "fetch", !.secrets = r.value]]
    /\ UNCHANGED <<table, started, inserted>>

(***************************************************************************)
(* The CRM.  Salesforce(...) logs in; sf.Account.get(record_id) returns    *)
(* the record as a dict or raises.  An outcome is the fault the call meets *)
(* ("record" when it meets none).                                          *)
(***************************************************************************)
CrmOutcomes == {"auth", "not_found", "rate_limit", "transport", "record"}

CrmException(outcome) ==
    CASE outcome = "auth" -> "SalesforceAuthenticationFailed"
      [] outcome = "not_found" -> "SalesforceResourceNotFound"
      [] outcome = "rate_limit" -> "SalesforceRefusedRequest"
      [] outcome = "transport" -> "ConnectionError"

Fields == {"Name", "Id", "Industry", "Phone"}

FullRecord(id) ==
    Dict([Name |-> Str("Acme Corp"), Id |-> Str(id), Industry |-> Str("Tech"),
          Phone |-> Str("555-1234")])

\* What the CRM may hold for a record id: the empty result, the full record,
\* a record without Industry, one whose Industry is null, one with a field
\* the pipeline does not use.
CrmRecords(id) ==
    { Dict(EmptyMap),
      FullRecord(id),
      Dict([Name |-> Str("Acme Corp"), Id |-> Str(id), Phone |-> Str("555-1234")]),
      Dict([Name |-> Str("Acme Corp"), Id |-> Str(id), Industry |-> None,
            Phone |-> Str("555-1234")]),
      Dict([Name |-> Str("Acme Corp"), Id |-> Str(id), Industry |-> Str("Tech"),
            Phone |-> Str("555-1234"), Website |-> Str("acme.example")]) }

\* Every record over the four fields the pipeline uses: each field absent,
\* null or a string.
FieldValues(field, id) ==
    CASE field = "Name" -> {Str("Acme Corp"), None}
      [] field = "Id" -> {Str(id)}
      [] field = "Industry" -> {Str("Tech"), None}
      [] field = "Phone" -> {Str("555-1234"), None}

AllRecords(id) ==
    UNION { { Dict(f) : f \in { g \in [present -> {Str("Acme Corp"), Str(id), Str("Tech"),
                                                   Str("555-1234"), None}] :
                                \A k \in present : g[k] \in FieldValues(k, id) } } :
            present \in SUBSET Fields }

\* The records the CRM may hold for an id: the usual ones, or all of them.
RecordsHeld(id, all) == IF all THEN AllRecords(id) ELSE CrmRecords(id)

\* Lines 39-48.
FetchRecord(i, outcomes, all) ==
    /\ frames[i].pc = "fetch"
    /\ \E outcome \in outcomes :
       \E salesforce_data \in RecordsHeld(frames[i].record_id.v, all) :
         LET sf_credentials == frames[i].secrets.v["salesforce"]
             record_id == frames[i].record_id
             login == Call("crm", "Salesforce", sf_credentials)
             get == Call("crm", "Account.get", record_id)
             f == [frames[i] EXCEPT !.crm_outcome = outcome]
         IN  frames' = [frames EXCEPT ![i] =
                 IF outcome = "auth"
                 THEN [f EXCEPT !.pc = "done", !.calls = @ \o <<login>>,
                                !.response = Raise(CrmException(outcome))]
                 ELSE IF outcome # "record"
                 THEN [f EXCEPT !.pc = "done", !.calls = @ \o <<login, get>>,
                                !.response = Raise(CrmException(outcome))]
                 ELSE IF ~Truthy(salesforce_data)
                 THEN [f EXCEPT !.pc = "done", !.calls = @ \o <<login, get>>,
                                !.salesforce_data = salesforce_data,
                                !.response = Return(
                                    <<"Error: Could not retrieve data for record ",
                                      Format(record_id), " from Salesforce.">>, 500)]
                 ELSE [f EXCEPT !.pc = "insert", !.calls = @ \o <<login, get>>,
                                !.salesforce_data = salesforce_data]]
    /\ UNCHANGED <<table, started, inserted>>

(***************************************************************************)
(* The warehouse.  insert_rows_json(table, rows) appends the rows and      *)
(* returns [], or returns row-level errors and appends nothing, or raises  *)
(* (taken as having appended nothing).                                     *)
(***************************************************************************)
SinkOutcomes == {"client", "get_table", "ok", "row_errors", "raised"}

\* An insert that treats Id as a key: a row with the same Id is replaced.
insert_rows_upsert(rows_in_table, rows_to_insert) ==
    LET new == rows_to_insert[1]
        same(k) == /\ "Id" \in DOMAIN rows_in_table[k].v
                   /\ "Id" \in DOMAIN new.v
                   /\ rows_in_table[k].v["Id"] = new.v["Id"]
    IN  IF \E k \in 1..Len(rows_in_table) : same(k)
        THEN [k \in 1..Len(rows_in_table) |->
                 IF same(k) THEN new ELSE rows_in_table[k]]
        ELSE rows_in_table \o rows_to_insert

\* An insert that replaces the table's contents by the new rows.
insert_rows_truncate(rows_in_table, rows_to_insert) == rows_to_insert

\* The table after a streaming insert that reports no errors.
insert_rows_json(rows_in_table, rows_to_insert) == rows_in_table \o rows_to_insert

\* Lines 170-173 with errors reported: raise instead of print.
report_errors_raising(errors) ==
    IF errors = <<>> THEN Returned(None) ELSE Raised("RuntimeError")

\* Lines 170-173: both branches only print.
report_errors(errors) == Returned(None)

\* Lines 175-176: the exception of insert_rows_json is printed and dropped.
on_insert_error(exc) == Returned(None)

\* A row holding only the four fields the message shows.
rows_projected(data) ==
    <<Dict([field \in (DOMAIN data.v) \cap Fields |-> data.v[field]])>>

\* Line 164: rows_to_insert = [data]
rows_for(data) == <<data>>

\* insert_into_bigquery with a second attempt after insert_rows_json raises.
insert_into_bigquery_retrying(data, rows_in_table, outcome) ==
    LET rows_to_insert == rows_for(data)
        entry == <<Call("sink", "insert_into_bigquery", data),
                   Call("sink", "bigquery.Client", "")>>
        lookup == entry \o <<Call("sink", "get_table", "")>>
        attempt == Call("sink", "insert_rows_json", rows_to_insert)
        issued == lookup \o <<attempt>>
        result(raised, exc, calls, rows, appended) ==
            [raised |-> raised, exc |-> exc, calls |-> calls, table |-> rows,
             appended |-> appended]
    IN  CASE outcome = "client" ->
               result(TRUE, "DefaultCredentialsError", entry, rows_in_table, FALSE)
          [] outcome = "get_table" ->
               result(TRUE, "NotFound", lookup, rows_in_table, FALSE)
          [] outcome = "ok" ->
               result(FALSE, "", issued,
                      insert_rows_json(rows_in_table, rows_to_insert), TRUE)
          [] outcome = "row_errors" ->
               result(FALSE, "", issued, rows_in_table, FALSE)
          [] outcome = "raised" ->
               result(FALSE, "", issued \o <<attempt>>, rows_in_table, FALSE)

\* insert_into_bigquery(data) against the table as it stands: the calls it
\* makes, the table afterwards, whether a row was appended, and whether an
\* exception leaves the function (the client and the table lookup are
\* outside its try block).
insert_into_bigquery(data, rows_in_table, outcome) ==
    LET rows_to_insert == rows_for(data)
        entry == <<Call("sink", "insert_into_bigquery", data),
                   Call("sink", "bigquery.Client", "")>>
        lookup == entry \o <<Call("sink", "get_table", "")>>
        issued == lookup \o <<Call("sink", "insert_rows_json", rows_to_insert)>>
        result(raised, exc, calls, rows, appended) ==
            [raised |-> raised, exc |-> exc, calls |-> calls, table |-> rows,
             appended |-> appended]
    IN  CASE outcome = "client" ->
               result(TRUE, "DefaultCredentialsError", entry, rows_in_table, FALSE)
          [] outcome = "get_table" ->
               result(TRUE, "NotFound", lookup, rows_in_table, FALSE)
          [] outcome = "ok" ->
               LET r == report_errors(<<>>) IN
               result(r.raised, r.exc, issued,
                      insert_rows_json(rows_in_table, rows_to_insert), TRUE)
          [] outcome = "row_errors" ->
               LET r == report_errors(<<"no such field">>) IN
               result(r.raised, r.exc, issued, rows_in_table, FALSE)
          [] outcome = "raised" ->
               LET r == on_insert_error("ServiceUnavailable") IN
               result(r.raised, r.exc, issued, rows_in_table, FALSE)

\* Line 55.
InsertRow(i, outcomes) ==
    /\ frames[i].pc = "insert"
    /\ \E outcome \in outcomes :
         LET r == insert_into_bigquery(frames[i].salesforce_data, table, outcome)
             f == [frames[i] EXCEPT !.sink_outcome = outcome, !.calls = @ \o r.calls]
         IN  /\ table' = r.table
             /\ inserted' = IF r.appended THEN inserted + 1 ELSE inserted
             /\ frames' = [frames EXCEPT ![i] =
                    IF r.raised
                    THEN [f EXCEPT !.pc = "done", !.response = Raise(r.exc)]
                    ELSE [f EXCEPT !.pc = "notify",
                                   !.row = IF r.appended THEN Len(r.table) ELSE 0]]
    /\ UNCHANGED started

(***************************************************************************)
(* The notifier.  The message is the MIMEText of lines 199-209: the body's *)
(* f-string segments (the even ones are the placeholders), and the to,     *)
(* from and subject headers.                                               *)
(***************************************************************************)
NotifierOutcomes == {"creds", "build", "render", "send", "none"}

sender_email == "noreply@example.com"
recipient_emails == <<"ops@example.com", "sales@example.com">>

\* sep.join(parts)
RECURSIVE Join(_, _)
Join(sep, parts) ==
    IF Len(parts) = 0 THEN ""
    ELSE IF Len(parts) = 1 THEN parts[1]
    ELSE parts[1] \o sep \o Join(sep, Tail(parts))

\* A placeholder that shows nothing for a field the record lacks.
placeholder_blank(data, field) == Format(DictGet(data, field, Str("")))

\* {data.get(field, 'N/A')} inside an f-string
placeholder(data, field) == Format(DictGet(data, field, Str("N/A")))

\* A subject built from the record's Id.
subject_from_id(data) ==
    <<"New Salesforce Record Created/Updated: ", placeholder(data, "Id")>>

\* Line 209.
subject(data) ==
    <<"New Salesforce Record Created/Updated: ", placeholder(data, "Name")>>

render_message(data) ==
    [ body |-> << "<h3>A Salesforce record has been processed and added to BigQuery.</h3><p><strong>Record Name:</strong> ",
                  placeholder(data, "Name"),
                  "</p><p><strong>Record ID:</strong> ",
                  placeholder(data, "Id"),
                  "</p><p><strong>Industry:</strong> ",
                  placeholder(data, "Industry"),
                  "</p><p><strong>Phone:</strong> ",
                  placeholder(data, "Phone"),
                  "</p>" >>,
      to |-> Join(", ", recipient_emails),
      from |-> sender_email,
      subject |-> subject(data) ]

\* The except clause of line 218 letting the exception through.
on_send_error_reraise(exc) == Raised(exc)

\* Lines 218-219: the exception is printed and dropped.
on_send_error(exc) == Returned(None)

\* base64.urlsafe_b64encode(message.as_bytes()).decode()
urlsafe_b64encode(message) == [base64 |-> message]

\* send_email_notification(credentials_info, data): the calls it makes and
\* whether an exception leaves the function (the whole body is in one try).
send_email_notification(credentials_info, data, outcome) ==
    LET entry == <<Call("notifier", "send_email_notification", data),
                   Call("notifier", "Credentials.from_authorized_user_info",
                        [ client_id     |-> credentials_info.v["client_id"],
                          client_secret |-> credentials_info.v["client_secret"],
                          refresh_token |-> credentials_info.v["refresh_token"],
                          token_uri     |-> Str("https://oauth2.googleapis.com/token") ])>>
        built == entry \o <<Call("notifier", "build", "gmail")>>
        create_message == [raw |-> urlsafe_b64encode(render_message(data))]
        sent == built \o <<Call("notifier", "messages.send", create_message)>>
        result(r, calls, delivered) ==
            [raised |-> r.raised, exc |-> r.exc, calls |-> calls,
             delivered |-> delivered]
    IN  CASE outcome = "creds" -> result(on_send_error("ValueError"), entry, FALSE)
          [] outcome = "build" -> result(on_send_error("UnknownApiNameOrVersion"), built, FALSE)
          [] outcome = "render" -> result(on_send_error("HeaderParseError"), built, FALSE)
          [] outcome = "send" -> result(on_send_error("HttpError"), sent, FALSE)
          [] outcome = "none" -> result(Returned(None), sent, TRUE)

\* Lines 62-64.
Notify(i, outcomes) ==
    /\ frames[i].pc = "notify"
    /\ \E outcome \in outcomes :
         LET gmail_credentials == frames[i].secrets.v["gmail"]
             r == send_email_notification(gmail_credentials,
                                          frames[i].salesforce_data, outcome)
             f == [frames[i] EXCEPT !.notifier_outcome = outcome,
                                    !.calls = @ \o r.calls]
         IN  frames' = [frames EXCEPT ![i] =
                 IF r.raised
                 THEN [f EXCEPT !.pc = "done", !.response = Raise(r.exc)]
                 ELSE [f EXCEPT !.pc = "done",
                                !.response = Return(
                                    <<"Successfully processed Salesforce notification.">>,
                                    200)]]
    /\ UNCHANGED <<table, started, inserted>>

\* The response goes back to the caller and the invocation's locals are dropped.
Respond(i) ==
    /\ frames[i].pc = "done"
    /\ frames' = [frames EXCEPT ![i] = IdleFrame]
    /\ UNCHANGED <<table, started, inserted>>

(***************************************************************************)
(* Specifications.                                                         *)
(***************************************************************************)
SecretFaults ==
    { SecretFault(FALSE, {}),
      SecretFault(TRUE, {}),
      SecretFault(FALSE, {"salesforce-username"}),
      SecretFault(FALSE, {"salesforce-token", "gmail-client-id"}),
      SecretFault(FALSE, {"gmail-refresh-token"}) }

AllSecretFaults ==
    {SecretFault(c, u) : c \in BOOLEAN, u \in SUBSET SecretIds}

Accept(i) == Serial(i) /\ Start(i, Requests, MaxInvocations)

Next ==
    \E i \in Slots :
        \/ Accept(i)
        \/ Parse(i)
        \/ ResolveSecrets(i, SecretFaults)
        \/ FetchRecord(i, CrmOutcomes, FALSE)
        \/ InsertRow(i, SinkOutcomes)
        \/ Notify(i, NotifierOutcomes)
        \/ Respond(i)

Spec == Init /\ [][Next]_vars

\* One good request at a time, every fault of the secret store, no other fault.
AcceptGood(i) == Serial(i) /\ Start(i, GoodRequests, WideInvocations)

NextSecrets ==
    \E i \in Slots :
        \/ AcceptGood(i)
        \/ Parse(i)
        \/ ResolveSecrets(i, AllSecretFaults)
        \/ FetchRecord(i, {"record"}, FALSE)
        \/ InsertRow(i, {"ok"})
        \/ Notify(i, {"none"})
        \/ Respond(i)

SpecSecrets == Init /\ [][NextSecrets]_vars

\* One good request at a time, every record over the fields the message
\* shows, every fault of the notifier.
NextRender ==
    \E i \in Slots :
        \/ AcceptGood(i)
        \/ Parse(i)
        \/ ResolveSecrets(i, {SecretFault(FALSE, {})})
        \/ FetchRecord(i, {"record"}, TRUE)
        \/ InsertRow(i, {"ok", "row_errors"})
        \/ Notify(i, NotifierOutcomes)
        \/ Respond(i)

SpecRender == Init /\ [][NextRender]_vars

\* Invocations running at the same time, one per slot, their stage calls
\* interleaved in any order.  The CRM holds the full record or nothing.
ConcRequests == GoodRequests \cup {NotJson}

AcceptConcurrent(i) == Start(i, ConcRequests, ConcInvocations)

FetchConcurrent(i) ==
    /\ FetchRecord(i, {"record", "not_found"}, FALSE)
    /\ frames'[i].salesforce_data \in
           {Unbound, Dict(EmptyMap)} \cup {FullRecord(id) : id \in RecordIds}

NextConc ==
    \E i \in Slots :
        \/ AcceptConcurrent(i)
        \/ Parse(i)
        \/ ResolveSecrets(i, {SecretFault(FALSE, {}),
                              SecretFault(FALSE, {"salesforce-username"})})
        \/ FetchConcurrent(i)
        \/ InsertRow(i, {"client", "ok", "row_errors"})
        \/ Notify(i, {"send", "none"})
        \/ Respond(i)

SpecConc == Init /\ [][NextConc]_vars

(***************************************************************************)
(* Vocabulary of the properties.                                           *)
(***************************************************************************)
Done(i) == frames[i].pc = "done"
Status(i, code) == frames[i].response.kind = "return" /\ frames[i].response.status = code
NoCallsTo(i, stages) == \A k \in 1..Len(frames[i].calls) : frames[i].calls[k].stage \notin stages
TimesCalled(i, op) == Cardinality(CallsOf(frames[i].calls, op))

\* The request bodies the parser must reject: not JSON, JSON but no object,
\* no recordId, an empty recordId.
Malformed(request) ==
    \/ ~request.json
    \/ request.value.type # "dict"
    \/ "recordId" \notin DOMAIN request.value.v
    \/ request.value.v["recordId"] = Str("")

\* A JSON object whose recordId is a non-empty string.
WellFormed(request) ==
    /\ request.json
    /\ request.value.type = "dict"
    /\ "recordId" \in DOMAIN request.value.v
    /\ request.value.v["recordId"].type = "str"
    /\ request.value.v["recordId"].v # ""

CrmFailed(i) ==
    \/ frames[i].crm_outcome \in {"auth", "not_found", "rate_limit", "transport"}
    \/ frames[i].crm_outcome = "record" /\ ~Truthy(frames[i].salesforce_data)

\* The message handed to messages.send by call k of invocation i.
SentMessage(i, k) == frames[i].calls[k].arg.raw.base64

\* Where each field's placeholder sits in the body.
BodySlot(field) ==
    CASE field = "Name" -> 2
      [] field = "Id" -> 4
      [] field = "Industry" -> 6
      [] field = "Phone" -> 8

\* C1: a request that is not JSON, is JSON but no object, lacks recordId or
\* has an empty recordId makes the parser return None without raising and the
\* handler return status 400, with no call to the secret store, the CRM, the
\* warehouse or the notifier.
C1_MalformedRequestRejected ==
    \A i \in Slots :
        (frames[i].pc \notin {"idle", "parse"} /\ Malformed(frames[i].request)) =>
            /\ frames[i].record_id = None
            /\ Done(i)
            /\ Status(i, 400)
            /\ frames[i].calls = <<>>

C1_Witness ==
    \E i \in Slots :
        /\ Done(i)
        /\ frames[i].request.json
        /\ frames[i].request.value.type = "list"
        /\ Status(i, 400)

\* C2: when get_secrets returns no bundle the handler returns status 500
\* with a text naming the stage, and calls neither the CRM, the warehouse nor
\* the notifier.
C2_SecretFailureReturns500 ==
    \A i \in Slots :
        (Done(i) /\ frames[i].secrets = None) =>
            /\ Status(i, 500)
            /\ Len(frames[i].response.text) > 0
            /\ NoCallsTo(i, {"crm", "sink", "notifier"})

\* C3: when the CRM stage fails for a parsed record id the handler returns
\* status 500 with a message embedding the record id, and calls neither the
\* warehouse nor the notifier.
C3_CrmFailureReturns500 ==
    \A i \in Slots :
        (Done(i) /\ CrmFailed(i)) =>
            /\ Status(i, 500)
            /\ Embeds(frames[i].response.text, Format(frames[i].record_id))
            /\ NoCallsTo(i, {"sink", "notifier"})

\* C4: get_secrets is all-or-nothing.  If any of the seven names fails to
\* resolve no bundle comes back (None once the client exists), and a bundle
\* that does come back holds the four CRM credentials and the three notifier
\* credentials, each the payload of its secret.
C4_SecretsAllOrNothing ==
    \A i \in Slots :
        frames[i].pc \notin {"idle", "parse", "secrets"} =>
            LET fault == frames[i].secret_fault
                secrets == frames[i].secrets
                value(n) == Payload(secret_names[n].secret_id)
            IN  /\ fault.unresolved # {} => secrets.type # "dict"
                /\ (fault.unresolved # {} /\ ~fault.client_fails) => secrets = None
                /\ secrets.type = "dict" =>
                     /\ fault.unresolved = {}
                     /\ DOMAIN secrets.v = {"salesforce", "gmail"}
                     /\ secrets.v["salesforce"].v =
                            [username |-> value(1), password |-> value(2),
                             token |-> value(3), instance_url |-> value(4)]
                     /\ secrets.v["gmail"].v =
                            [client_id |-> value(5), client_secret |-> value(6),
                             refresh_token |-> value(7)]

C4_Witness ==
    \E i \in Slots :
        /\ Done(i)
        /\ frames[i].secret_fault = SecretFault(FALSE, {"gmail-refresh-token"})
        /\ TimesCalled(i, "access_secret_version") = 7
        /\ frames[i].secrets = None

\* C5: when the insert call returns row-level errors the notifier is still
\* called exactly once and the handler returns status 200.
C5_RowErrorsStillNotify ==
    \A i \in Slots :
        frames[i].sink_outcome = "row_errors" =>
            /\ frames[i].pc \in {"notify", "done"}
            /\ Done(i) => /\ TimesCalled(i, "send_email_notification") = 1
                          /\ Status(i, 200)

C5_Witness ==
    \E i \in Slots :
        /\ Done(i)
        /\ frames[i].sink_outcome = "row_errors"
        /\ frames[i].row = 0
        /\ TimesCalled(i, "messages.send") = 1
        /\ Status(i, 200)

\* C6: a notifier failure at any point is swallowed: the handler returns
\* status 200 and the row inserted earlier in the invocation is still in the
\* table.
C6_NotifierFailureSwallowed ==
    \A i \in Slots :
        (Done(i) /\ frames[i].notifier_outcome \in {"creds", "build", "render", "send"}) =>
            /\ Status(i, 200)
            /\ frames[i].sink_outcome = "ok" =>
                 /\ frames[i].row \in 1..Len(table)
                 /\ table[frames[i].row] = frames[i].salesforce_data

C6_Witness ==
    \E i \in Slots :
        /\ Done(i)
        /\ frames[i].notifier_outcome = "send"
        /\ frames[i].sink_outcome = "ok"
        /\ frames[i].row = Len(table)
        /\ table[frames[i].row] = frames[i].salesforce_data
        /\ Status(i, 200)

\* Every stage of invocation i succeeded.
AllSucceeded(i) ==
    /\ frames[i].crm_outcome = "record"
    /\ Truthy(frames[i].salesforce_data)
    /\ frames[i].sink_outcome = "ok"
    /\ frames[i].notifier_outcome = "none"

\* C7: in an invocation where every stage succeeds the table gains exactly
\* one row, whose Name, Id, Industry and Phone are those of the fetched
\* record; the notifier is called exactly once, with the subject
\* "New Salesforce Record Created/Updated: <Name>"; the status is 200.
C7_SuccessfulRun ==
    \A i \in Slots :
        (Done(i) /\ AllSucceeded(i)) =>
            LET data == frames[i].salesforce_data
                row == table[frames[i].row]
                sends == CallsOf(frames[i].calls, "messages.send")
            IN  /\ Len(table) = frames[i].rows_at_start + 1
                /\ frames[i].row = Len(table)
                /\ \A field \in Fields :
                     /\ field \in DOMAIN row.v <=> field \in DOMAIN data.v
                     /\ field \in DOMAIN data.v => row.v[field] = data.v[field]
                /\ TimesCalled(i, "send_email_notification") = 1
                /\ Cardinality(sends) = 1
                /\ \A k \in sends :
                     "Name" \in DOMAIN data.v =>
                        SentMessage(i, k).subject =
                            <<"New Salesforce Record Created/Updated: ",
                              Format(data.v["Name"])>>
                /\ Status(i, 200)

C7_Witness ==
    \E i \in Slots :
        /\ Done(i)
        /\ AllSucceeded(i)
        /\ frames[i].salesforce_data = FullRecord("001xx000003DHPGAA4")
        /\ table[Len(table)] = FullRecord("001xx000003DHPGAA4")
        /\ \E k \in CallsOf(frames[i].calls, "messages.send") :
             SentMessage(i, k).subject =
                 <<"New Salesforce Record Created/Updated: ", "Acme Corp">>
        /\ Status(i, 200)

\* C8: the table's row count equals the number of successful insert calls,
\* and no step updates, merges or removes a row already in the table (so two
\* runs for the same record leave two rows).
C8_AppendOnly ==
    /\ [](Len(table) = inserted)
    /\ [][ /\ Len(table') >= Len(table)
           /\ \A k \in 1..Len(table) : table'[k] = table[k] ]_vars

C8_Witness ==
    /\ Len(table) = 2
    /\ inserted = 2
    /\ table[1] = FullRecord("001xx000003DHPGAA4")
    /\ table[2] = table[1]
    /\ \E i \in Slots : Done(i) /\ frames[i].row = 2 /\ Status(i, 200)

\* C9: for each of Name, Id, Industry and Phone the rendered body shows
\* "N/A" in the field's place when the record lacks the field and the
\* field's value when it has it; the subject does the same for Name.
C9_MissingFieldsRenderNA ==
    \A i \in Slots :
        \A k \in CallsOf(frames[i].calls, "messages.send") :
            LET data == frames[i].salesforce_data
                message == SentMessage(i, k)
                shown(field) == IF field \in DOMAIN data.v
                                THEN Format(data.v[field]) ELSE "N/A"
            IN  /\ \A field \in Fields : message.body[BodySlot(field)] = shown(field)
                /\ message.subject[2] = shown("Name")

C9_Witness ==
    \E i \in Slots :
        \E k \in CallsOf(frames[i].calls, "messages.send") :
            /\ DOMAIN frames[i].salesforce_data.v = {"Id", "Phone"}
            /\ SentMessage(i, k).body[BodySlot("Industry")] = "N/A"
            /\ SentMessage(i, k).body[BodySlot("Name")] = "N/A"
            /\ SentMessage(i, k).subject[2] = "N/A"
            /\ SentMessage(i, k).body[BodySlot("Phone")] = "555-1234"

\* C10: for a JSON object whose recordId is a non-empty string the parser
\* returns exactly that string, and that string is what the CRM fetch is
\* called with.
C10_RecordIdPassedUnchanged ==
    \A i \in Slots :
        (frames[i].pc \notin {"idle", "parse"} /\ WellFormed(frames[i].request)) =>
            LET sent == frames[i].request.value.v["recordId"] IN
            /\ frames[i].record_id = sent
            /\ frames[i].pc # "done" \/ frames[i].response.kind # "return"
                   \/ frames[i].response.status # 400
            /\ \A k \in CallsOf(frames[i].calls, "Account.get") :
                   frames[i].calls[k].arg = sent

C10_Witness ==
    \E i \in Slots :
        /\ WellFormed(frames[i].request)
        /\ frames[i].request.value.v["recordId"] = Str("001xx000003DHPHAA4")
        /\ \E k \in CallsOf(frames[i].calls, "Account.get") :
               frames[i].calls[k].arg = Str("001xx000003DHPHAA4")

\* The sink stage of invocation i failed, at whatever point.
SinkFailed(i) == frames[i].sink_outcome \in {"client", "get_table", "row_errors", "raised"}

\* C11: a failure of the warehouse stage of any kind, the client constructor
\* and the table lookup included, is swallowed: no exception leaves
\* insert_into_bigquery, the notifier is still called and the status is 200.
C11_SinkFailureSwallowed ==
    \A i \in Slots :
        (Done(i) /\ SinkFailed(i)) =>
            /\ frames[i].response.kind # "raise"
            /\ TimesCalled(i, "send_email_notification") = 1
            /\ Status(i, 200)

\* The place of each collaborator in the pipeline.
StageRank(stage) ==
    CASE stage = "secrets" -> 1
      [] stage = "crm" -> 2
      [] stage = "sink" -> 3
      [] stage = "notifier" -> 4

\* C12: within an invocation the stages run in the order parse, secrets,
\* CRM fetch, insert, notification, each starting only after the one before
\* has returned successfully; the CRM fetch, the insert and the send are
\* each issued at most once.
C12_StagesInOrderOnce ==
    \A i \in Slots :
        LET calls == frames[i].calls IN
        /\ \A k, l \in 1..Len(calls) :
               k < l => StageRank(calls[k].stage) <= StageRank(calls[l].stage)
        /\ calls # <<>> => frames[i].record_id.type = "str"
        /\ CallsTo(calls, "crm") # {} => frames[i].secrets.type = "dict"
        /\ CallsTo(calls, "sink") # {} =>
               frames[i].crm_outcome = "record" /\ Truthy(frames[i].salesforce_data)
        /\ CallsTo(calls, "notifier") # {} =>
               frames[i].sink_outcome \in {"ok", "row_errors", "raised"}
        /\ \A op \in {"Salesforce", "Account.get", "insert_into_bigquery",
                      "insert_rows_json", "send_email_notification", "messages.send"} :
               TimesCalled(i, op) <= 1

C12_Witness ==
    \E i \in Slots :
        /\ Done(i)
        /\ frames[i].sink_outcome = "raised"
        /\ frames[i].notifier_outcome = "send"
        /\ TimesCalled(i, "access_secret_version") = 7
        /\ TimesCalled(i, "Account.get") = 1
        /\ TimesCalled(i, "insert_rows_json") = 1
        /\ TimesCalled(i, "messages.send") = 1

\* What invocation i was given: its request and the outcome of each of its
\* own stage calls.
Given(i) ==
    <<frames[i].request, frames[i].secret_fault, frames[i].crm_outcome,
      frames[i].salesforce_data, frames[i].sink_outcome, frames[i].notifier_outcome>>

\* C13: with invocations interleaved in any order, an invocation's response,
\* its calls and the row it inserts are determined by its own request and
\* stage outcomes; each successful insert has its own row, which holds that
\* invocation's record; the table has one row per successful insert and no
\* step changes or removes a row.
C13_ConcurrentInvocationsIndependent ==
    /\ [](\A i, j \in Slots :
            (Done(i) /\ Done(j) /\ Given(i) = Given(j)) =>
                /\ frames[i].response = frames[j].response
                /\ frames[i].calls = frames[j].calls
                /\ (frames[i].row = 0) = (frames[j].row = 0))
    /\ [](\A i \in Slots :
            frames[i].row # 0 =>
                /\ frames[i].row \in 1..Len(table)
                /\ table[frames[i].row] = frames[i].salesforce_data
                /\ \A j \in Slots \ {i} : frames[j].row # frames[i].row)
    /\ [](Len(table) = inserted)
    /\ [][ /\ Len(table') >= Len(table)
           /\ \A k \in 1..Len(table) : table'[k] = table[k] ]_vars

\* Two invocations accepted before either inserted, both finished, the one
\* in slot 1 having inserted after the one in slot 2.
C13_Witness ==
    /\ Done(1) /\ Done(2)
    /\ frames[1].rows_at_start = 0 /\ frames[2].rows_at_start = 0
    /\ frames[1].row = 2 /\ frames[2].row = 1
    /\ frames[1].request # frames[2].request
    /\ table = <<frames[2].salesforce_data, frames[1].salesforce_data>>
    /\ Status(1, 200) /\ Status(2, 200)

\* The calls invocation i made to the secret store, in order.
SecretCalls(i) ==
    LET ToStore(c) == c.stage = "secrets" IN SelectSeq(frames[i].calls, ToStore)

\* How many names are asked for when the ids in unresolved cannot be
\* resolved: up to and including the first of them in secret_names order.
NamesAsked(unresolved) ==
    LET failing == {k \in 1..Len(secret_names) : secret_names[k].secret_id \in unresolved}
    IN  IF failing = {} THEN Len(secret_names)
        ELSE CHOOSE k \in failing : \A l \in failing : k <= l

\* C14: every invocation that gets past parsing asks the secret store
\* again, whatever earlier invocations resolved: it builds the client and
\* requests the names in secret_names order, stopping at the first that
\* fails to resolve.
C14_SecretsResolvedEveryTime ==
    \A i \in Slots :
        (frames[i].pc \notin {"idle", "parse", "secrets"}
             /\ frames[i].record_id.type = "str") =>
            LET asked == SecretCalls(i)
                fault == frames[i].secret_fault
                n == NamesAsked(fault.unresolved)
            IN  /\ Len(asked) >= 1
                /\ asked[1].op = "SecretManagerServiceClient"
                /\ fault.client_fails => Len(asked) = 1
                /\ ~fault.client_fails =>
                     /\ Len(asked) = 1 + n
                     /\ \A k \in 1..n :
                          /\ asked[k + 1].op = "access_secret_version"
                          /\ asked[k + 1].arg = resource_name(secret_names[k].secret_id)

\* An earlier invocation resolved the bundle and inserted its row; the
\* current one has not inserted and has again asked for names, stopping at
\* the third.
C14_Witness ==
    \E i \in Slots :
        /\ inserted = 1
        /\ started = 2
        /\ Done(i)
        /\ frames[i].sink_outcome = ""
        /\ frames[i].secret_fault = SecretFault(FALSE, {"salesforce-token", "gmail-client-id"})
        /\ TimesCalled(i, "access_secret_version") = 3

\* The bundle with every one of the seven secrets resolved.
CompleteBundle ==
    Bundle([n \in SecretKeys |->
              Payload((CHOOSE e \in {secret_names[k] : k \in 1..Len(secret_names)} :
                          e.key = n).secret_id)])

\* C15: a 200 response comes only from an invocation that parsed the record
\* id, resolved a complete bundle, fetched a non-empty record and attempted
\* the insert and the notification exactly once each.
C15_SuccessMeansFullPipeline ==
    \A i \in Slots :
        (Done(i) /\ Status(i, 200)) =>
            /\ WellFormed(frames[i].request)
            /\ frames[i].record_id = frames[i].request.value.v["recordId"]
            /\ frames[i].secrets = CompleteBundle
            /\ frames[i].crm_outcome = "record"
            /\ frames[i].salesforce_data.type = "dict"
            /\ Truthy(frames[i].salesforce_data)
            /\ TimesCalled(i, "Account.get") = 1
            /\ TimesCalled(i, "insert_into_bigquery") = 1
            /\ TimesCalled(i, "send_email_notification") = 1

\* A 200 although the insert reported row errors and the notifier could not
\* build its credentials: both were still attempted.
C15_Witness ==
    \E i \in Slots :
        /\ Done(i)
        /\ Status(i, 200)
        /\ frames[i].sink_outcome = "row_errors"
        /\ frames[i].notifier_outcome = "creds"
        /\ TimesCalled(i, "insert_rows_json") = 1
        /\ TimesCalled(i, "send_email_notification") = 1
        /\ frames[i].secrets = CompleteBundle

\* C16: the insert request holds exactly one row, the fetched record itself
\* with every field the CRM returned and no other, and that is the row the
\* table gets.
C16_RowIsFetchedRecord ==
    \A i \in Slots :
        /\ \A k \in CallsOf(frames[i].calls, "insert_rows_json") :
               /\ Len(frames[i].calls[k].arg) = 1
               /\ frames[i].calls[k].arg[1] = frames[i].salesforce_data
        /\ frames[i].row # 0 =>
               /\ frames[i].row \in 1..Len(table)
               /\ table[frames[i].row] = frames[i].salesforce_data

C16_Witness ==
    \E i \in Slots :
        /\ frames[i].row = Len(table)
        /\ frames[i].row # 0
        /\ DOMAIN frames[i].salesforce_data.v = Fields \cup {"Website"}
        /\ table[frames[i].row].v["Website"] = Str("acme.example")
        /\ \E k \in CallsOf(frames[i].calls, "insert_rows_json") :
               frames[i].calls[k].arg = <<frames[i].salesforce_data>>

====
